---- MODULE Spec2Model ----
(***************************************************************************)
(* A model of satsolver.py: the CNF data structure with its occurrence     *)
(* index (Clause, Cnf), the propagation engine (Cnf.propagate and          *)
(* Cnf.unit_propagate), the recursive search (Solver.dpll with             *)
(* Solver.dynamic_largest) and the entry point Solver.solve.               *)
(*                                                                         *)
(* Python values are encoded as integers: False is 0 and True is 1 (as in  *)
(* Python, where bool is a subtype of int and a polarity indexes the       *)
(* counter pair), and the object None is the integer None below, which is  *)
(* no variable identifier and no boolean.  A dict is a sequence of         *)
(* <<key, value>> pairs in insertion order where the code depends on the   *)
(* order (a clause's literals, the propagation queue) and a function       *)
(* where it does not (assignment maps).  The occurrence index is a         *)
(* function: its insertion order is the ascending order of the variable    *)
(* identifiers (Cnf.from_list fills it from range(1, N + 1), and deleting  *)
(* or overwriting an entry or deep-copying the dict keeps the order).      *)
(*                                                                         *)
(* Clause and Cnf objects live in two heaps (clauseObj, cnfObj) and are    *)
(* referred to by their position there, so that aliasing between a         *)
(* formula and its copy is something the model can express.                *)
(***************************************************************************)
EXTENDS Integers, Sequences, FiniteSets, TLC

\* Bound of the model: the declared variable count N handed to Cnf.from_list;
\* the variables of the input clauses are 1..NVars.
NVars == 3

\* The input clause lists have at most MaxClauses clauses: four for three
\* variables, and one fewer for every variable more, which keeps the number of
\* inputs within what can be enumerated.
MaxClauses == 7 - NVars

\* Bound of the model: the largest number of steps of a run (a step is one
\* action below).  A run that got this far is cut off.
MaxSteps == 40

\* Python's None (for instance "Mvar = None, None" in dynamic_largest).
None == -1

\* The identifier of the UNSAT sentinel entry and its truthy marker.
SentinelKey == 0
SentinelVal == 1

VARIABLES
    input,      \* the clause list handed to Cnf.from_list, as lists of signed integers
    clauseObj,  \* heap of Clause objects: clauseObj[c] is the dict Clause.variables
    cnfObj,     \* heap of Cnf objects: [variables |-> index, clauses |-> list of Clause ids]
    stack,      \* the active dpll calls, outermost first
    prop,       \* the active propagate call (its locals, its call site, the raise that ended it)
    solveVars,  \* the local "variables" of Solver.solve (result of the pure-literal pass)
    ret,        \* the value a dpll call is returning to its caller
    pc,         \* where the control is
    result,     \* what Solver.solve returned
    steps       \* the number of steps taken so far

vars == <<input, clauseObj, cnfObj, stack, prop, solveVars, ret, pc, result, steps>>

----------------------------------------------------------------------------
\* Dicts

EmptyMap == [k \in {} |-> 0]

\* {**a, **b}: the entries of b win on overlap.
Merge(a, b) == [k \in (DOMAIN a) \cup (DOMAIN b) |-> IF k \in DOMAIN b THEN b[k] ELSE a[k]]

\* d.get(k, None) on an ordered dict.
Get(d, k) ==
    IF \E i \in 1..Len(d) : d[i][1] = k
    THEN LET i == CHOOSE j \in 1..Len(d) : d[j][1] = k IN d[i][2]
    ELSE None

\* del d[k] on an ordered dict (k is known to be present).
Del(d, k) == SelectSeq(d, LAMBDA it : it[1] # k)

\* The ordered dict as an unordered map.
RECURSIVE AsMap(_)
AsMap(d) == IF d = <<>> THEN EmptyMap ELSE Merge(AsMap(Tail(d)), Head(d)[1] :> Head(d)[2])

\* A variant of Remove: the entry is left in the index.
RemoveKeep(f, v) == f

\* del self.variables[v] on the occurrence index.
Remove(f, v) == [k \in (DOMAIN f) \ {v} |-> f[k]]

\* A variant of Not: the opposite value is not taken (the split retries the
\* same value).
NotSame(x) == x

\* "not x" in Python, for x a bool or None.
Not(x) == IF x = 1 THEN 0 ELSE 1

Abs(j) == IF j < 0 THEN -j ELSE j

----------------------------------------------------------------------------
\* Construction

\* Clause.from_list: {abs(j): j > 0 for j in set(lst)}.  The set drops repeated
\* integers; a variable given with both signs keeps its first position and the
\* polarity of its last occurrence.  (The iteration order of the set is taken
\* to be the order of the list.)
RECURSIVE ClauseFromList(_)
ClauseFromList(lst) ==
    IF lst = <<>> THEN <<>>
    ELSE LET n == Len(lst)
             j == lst[n]
             before == ClauseFromList(SubSeq(lst, 1, n - 1))
             par == IF j > 0 THEN 1 ELSE 0
         IN IF \E i \in 1..Len(before) : before[i][1] = Abs(j)
            THEN [i \in 1..Len(before) |->
                    IF before[i][1] = Abs(j) THEN <<Abs(j), par>> ELSE before[i]]
            ELSE Append(before, <<Abs(j), par>>)

\* The (negative, positive) occurrence counts of variable v over the clause
\* objects cs of heap objs.
Count(objs, cs, v) ==
    << Cardinality({i \in 1..Len(cs) : Get(objs[cs[i]], v) = 0}),
       Cardinality({i \in 1..Len(cs) : Get(objs[cs[i]], v) = 1}) >>

\* Cnf.from_list on the Clause objects 1..Len(objs) with declared count N:
\* list(set(clause_list)) hashes Clause objects by identity, so every object is
\* kept; the index holds the variables of 1..N with a nonzero count.
CnfFromList(objs, N) ==
    LET clauses == [i \in 1..Len(objs) |-> i]
        counted == {v \in 1..N : Count(objs, clauses, v) # <<0, 0>>}
    IN [variables |-> [v \in counted |-> Count(objs, clauses, v)],
        clauses |-> clauses]

\* A variant of CnfCopy: the new Cnf gets a new list of the same Clause
\* objects (the clauses are not copied).
CnfCopyShallow(cobjs, fobjs, f) ==
    [clauseObj |-> cobjs,
     cnfObj |-> Append(fobjs, [variables |-> fobjs[f].variables, clauses |-> fobjs[f].clauses])]

\* Cnf.__copy__ together with Clause.__copy__: a new Cnf whose index is a deep
\* copy and whose clauses are new Clause objects holding copies of the dicts.
\* Gives the two heaps after the copy; the new Cnf is the last of cnfObj.
CnfCopy(cobjs, fobjs, f) ==
    LET src == fobjs[f]
        n == Len(cobjs)
        fresh == [i \in 1..Len(src.clauses) |-> n + i]
    IN [clauseObj |-> cobjs \o [i \in 1..Len(src.clauses) |-> cobjs[src.clauses[i]]],
        cnfObj |-> Append(fobjs, [variables |-> src.variables, clauses |-> fresh])]

----------------------------------------------------------------------------
\* Inputs: a clause is coded in base 3, one digit per variable
\* (0 negative, 1 absent, 2 positive); the clause lists are the
\* non-decreasing sequences of at most MaxClauses codes.

RECURSIVE Pow3(_)
Pow3(n) == IF n = 0 THEN 1 ELSE 3 * Pow3(n - 1)

Digit(c, v) == (c \div Pow3(v - 1)) % 3

RECURSIVE LitList(_, _)
LitList(c, v) ==
    IF v > NVars THEN <<>>
    ELSE (CASE Digit(c, v) = 0 -> <<-v>>
            [] Digit(c, v) = 1 -> <<>>
            [] OTHER -> <<v>>) \o LitList(c, v + 1)

RECURSIVE SortedSeqs(_, _)
SortedSeqs(k, lo) ==
    IF k = 0 THEN {<<>>}
    ELSE {<<>>} \cup UNION {{<<c>> \o s : s \in SortedSeqs(k - 1, c)} : c \in lo..(Pow3(NVars) - 1)}

Inputs == {[i \in 1..Len(s) |-> LitList(s[i], 1)] : s \in SortedSeqs(MaxClauses, 0)}

----------------------------------------------------------------------------
\* Cnf.propagate, one dequeued assignment at a time.  The working state st of
\* one pass of the while loop is
\*   [variables, var_queue, clauseObj, new_clauses, exc, raised]
\* where exc is "none", "Unsatisfied" (UnsatisfiedException was raised) or
\* "KeyError" (the lookup self.variables[var] failed), and raised tells which
\* raise statement it was: "forcing" (lines 162 and 179, a variable that lost
\* its last occurrence of one polarity is queued with the other value),
\* "empty_clause" (line 192) or "unit_conflict" (line 205); "none" otherwise.

\* Lines 133-182: the clause with literals items is satisfied by the assumed
\* value; its other variables lose one occurrence, from position i on.
RECURSIVE DropClause(_, _, _, _)
DropClause(st, items, i, assume_var) ==
    IF i > Len(items) \/ st.exc # "none" THEN st
    ELSE LET var == items[i][1]
             par == items[i][2]
         IN IF var = assume_var THEN DropClause(st, items, i + 1, assume_var)
            ELSE IF var \notin DOMAIN st.variables THEN [st EXCEPT !.exc = "KeyError"]
            ELSE LET pair == Get(st.var_queue, var)
                     old_neg == st.variables[var][1]
                     old_pos == st.variables[var][2]
                 IN IF par = 1
                    THEN LET var_neg == old_neg
                             var_pos == old_pos - 1
                         IN IF var_pos = 0 /\ var_neg = 0
                            THEN DropClause([st EXCEPT !.variables = Remove(@, var)],
                                            items, i + 1, assume_var)
                            ELSE IF var_pos = 0 /\ pair = 1
                            THEN [st EXCEPT !.exc = "Unsatisfied", !.raised = "forcing"]
                            ELSE DropClause(
                                    [st EXCEPT !.variables[var] = <<var_neg, var_pos>>,
                                               !.var_queue = IF var_pos = 0 /\ pair = None
                                                             THEN Append(@, <<var, 0>>)
                                                             ELSE @],
                                    items, i + 1, assume_var)
                    ELSE LET var_neg == old_neg - 1
                             var_pos == old_pos
                         IN IF var_neg = 0 /\ var_pos = 0
                            THEN DropClause([st EXCEPT !.variables = Remove(@, var)],
                                            items, i + 1, assume_var)
                            ELSE IF var_neg = 0 /\ pair = 0
                            THEN [st EXCEPT !.exc = "Unsatisfied", !.raised = "forcing"]
                            ELSE DropClause(
                                    [st EXCEPT !.variables[var] = <<var_neg, var_pos>>,
                                               !.var_queue = IF var_neg = 0 /\ pair = None
                                                             THEN Append(@, <<var, 1>>)
                                                             ELSE @],
                                    items, i + 1, assume_var)

\* A variant of ShrinkClause: a clause that became unit is taken off the
\* counter of its variable when it leaves the live clauses.
ShrinkClauseCounted(st, c, assume_var) ==
    LET shrunk == Del(st.clauseObj[c], assume_var)
        st1 == [st EXCEPT !.clauseObj[c] = shrunk]
    IN IF Len(shrunk) = 0 THEN [st1 EXCEPT !.exc = "Unsatisfied", !.raised = "empty_clause"]
       ELSE IF Len(shrunk) = 1
       THEN LET var == shrunk[1][1]
                par == shrunk[1][2]
                pair == Get(st1.var_queue, var)
                st2 == IF var \in DOMAIN st1.variables
                       THEN [st1 EXCEPT !.variables[var][par + 1] = @ - 1]
                       ELSE st1
            IN IF pair = None THEN [st2 EXCEPT !.var_queue = Append(@, <<var, par>>)]
               ELSE IF par # pair
               THEN [st2 EXCEPT !.exc = "Unsatisfied", !.raised = "unit_conflict"]
               ELSE st2
       ELSE [st1 EXCEPT !.new_clauses = Append(@, c)]

\* A variant of ShrinkClause: the clause stays live with the literal of the
\* assumed variable left in it.
ShrinkClauseKeepLiteral(st, c, assume_var) == [st EXCEPT !.new_clauses = Append(@, c)]

\* A variant of ShrinkClause: a clause that became unit is dropped without its
\* literal being put into the queue.
ShrinkClauseNoQueue(st, c, assume_var) ==
    LET shrunk == Del(st.clauseObj[c], assume_var)
        st1 == [st EXCEPT !.clauseObj[c] = shrunk]
    IN IF Len(shrunk) = 0 THEN [st1 EXCEPT !.exc = "Unsatisfied", !.raised = "empty_clause"]
       ELSE IF Len(shrunk) = 1 THEN st1
       ELSE [st1 EXCEPT !.new_clauses = Append(@, c)]

\* Lines 185-209: the clause object c holds the assumed variable with the
\* other polarity; the literal is deleted from the object.
ShrinkClause(st, c, assume_var) ==
    LET shrunk == Del(st.clauseObj[c], assume_var)
        st1 == [st EXCEPT !.clauseObj[c] = shrunk]
    IN IF Len(shrunk) = 0 THEN [st1 EXCEPT !.exc = "Unsatisfied", !.raised = "empty_clause"]
       ELSE IF Len(shrunk) = 1
       THEN LET var == shrunk[1][1]
                par == shrunk[1][2]
                pair == Get(st1.var_queue, var)
            IN IF pair = None THEN [st1 EXCEPT !.var_queue = Append(@, <<var, par>>)]
               ELSE IF par # pair
               THEN [st1 EXCEPT !.exc = "Unsatisfied", !.raised = "unit_conflict"]
               ELSE st1
       ELSE [st1 EXCEPT !.new_clauses = Append(@, c)]

\* Lines 120-209: the body of "for clause in self.clauses" for clause object c.
PropClause(st, c, assume_var, assume_val) ==
    LET clause_var == Get(st.clauseObj[c], assume_var)
    IN IF clause_var = None THEN [st EXCEPT !.new_clauses = Append(@, c)]
       ELSE IF clause_var = assume_val
       THEN DropClause(st, st.clauseObj[c], 1, assume_var)
       ELSE ShrinkClause(st, c, assume_var)

RECURSIVE PropClauses(_, _, _, _, _)
PropClauses(st, clauses, i, assume_var, assume_val) ==
    IF i > Len(clauses) \/ st.exc # "none" THEN st
    ELSE PropClauses(PropClause(st, clauses[i], assume_var, assume_val),
                     clauses, i + 1, assume_var, assume_val)

\* A variant of SetClauses: the new clauses are added to the live ones.
SetClausesExtend(clauses, new_clauses) == clauses \o new_clauses

\* Line 211: self.clauses = new_clauses.
SetClauses(clauses, new_clauses) == new_clauses

\* A variant of EarlyExit: the entries still queued are left out.
EarlyExitDropQueue(assumptions, var_queue) == assumptions

\* Lines 214-217, the early exit when no live clause is left: the entries
\* still queued are accepted into the returned assumptions.
EarlyExit(assumptions, var_queue) == Merge(assumptions, AsMap(var_queue))

\* Lines 105-217: one pass of "while var_queue" on the Cnf object f, with
\* queue and assumptions the locals of the call.  popitem takes the entry
\* inserted last.  Gives the heaps, the locals and how the pass ended:
\* "loop" (back to the loop test), "return" (the early exit of line 217),
\* "Unsatisfied" or "KeyError", and for "Unsatisfied" which raise it was.
PropagatePass(cobjs, fobjs, f, queue, assumptions) ==
    LET assume_var == queue[Len(queue)][1]
        assume_val == queue[Len(queue)][2]
        rest == SubSeq(queue, 1, Len(queue) - 1)
        assumed == Merge(assumptions, assume_var :> assume_val)
        self == fobjs[f]
    IN IF assume_var \notin DOMAIN self.variables
       THEN [clauseObj |-> cobjs, cnfObj |-> fobjs, var_queue |-> rest,
             assumptions |-> assumed, end |-> "loop", raised |-> "none"]
       ELSE LET st == PropClauses([variables |-> Remove(self.variables, assume_var),
                                   var_queue |-> rest, clauseObj |-> cobjs,
                                   new_clauses |-> <<>>, exc |-> "none",
                                   raised |-> "none"],
                                  self.clauses, 1, assume_var, assume_val)
            IN IF st.exc # "none"
               THEN [clauseObj |-> st.clauseObj,
                     cnfObj |-> [fobjs EXCEPT ![f].variables = st.variables],
                     var_queue |-> st.var_queue, assumptions |-> assumed, end |-> st.exc,
                     raised |-> st.raised]
               ELSE LET clauses == SetClauses(self.clauses, st.new_clauses)
                    IN [clauseObj |-> st.clauseObj,
                        cnfObj |-> [fobjs EXCEPT ![f] = [variables |-> st.variables,
                                                         clauses |-> clauses]],
                        var_queue |-> st.var_queue,
                        assumptions |-> IF Len(clauses) = 0
                                        THEN EarlyExit(assumed, st.var_queue)
                                        ELSE assumed,
                        end |-> IF Len(clauses) = 0 THEN "return" ELSE "loop",
                        raised |-> "none"]

----------------------------------------------------------------------------
\* A variant of DynamicLargest: the comparison with M never succeeds, so no
\* variable is chosen.
DynamicLargestNone(variables) == <<None, None>>

\* A variant of DynamicLargest: the guess is the positive count, not the
\* comparison "pos > neg".
DynamicLargestCount(variables) ==
    LET S == {v \in DOMAIN variables : variables[v][2] + variables[v][1] > 0}
    IN IF S = {} THEN <<None, None>>
       ELSE LET var == CHOOSE v \in S : \A w \in S : w <= v
            IN <<var, variables[var][2]>>

\* Solver.dynamic_largest: M stays 0, so Mvar ends as the last variable of
\* the index (in its iteration order, the ascending one) whose two counts sum
\* to more than 0, with the guess "pos > neg"; (None, None) if there is none.
DynamicLargest(variables) ==
    LET S == {v \in DOMAIN variables : variables[v][2] + variables[v][1] > 0}
    IN IF S = {} THEN <<None, None>>
       ELSE LET var == CHOOSE v \in S : \A w \in S : w <= v
            IN <<var, IF variables[var][2] > variables[var][1] THEN 1 ELSE 0>>

\* A variant of PureVariables: no variable is collected, so the pure-literal
\* pass of Solver.solve propagates nothing.
PureVariablesNone(variables, v) == <<>>

\* Lines 239-244 of Solver.solve: the pure variables of the index, as the
\* queue handed to propagate (in the iteration order of the index, from v on).
RECURSIVE PureVariables(_, _)
PureVariables(variables, v) ==
    IF v > NVars THEN <<>>
    ELSE (IF v \notin DOMAIN variables THEN <<>>
          ELSE IF variables[v][2] = 0 THEN << <<v, 0>> >>
          ELSE IF variables[v][1] = 0 THEN << <<v, 1>> >>
          ELSE <<>>) \o PureVariables(variables, v + 1)

\* A variant of FirstShort: the scan looks for unit clauses only, and walks
\* past an empty clause.
FirstUnit(cobjs, clauses) ==
    IF \E i \in 1..Len(clauses) : Len(cobjs[clauses[i]]) = 1
    THEN LET i == CHOOSE j \in 1..Len(clauses) :
                    /\ Len(cobjs[clauses[j]]) = 1
                    /\ \A k \in 1..(j - 1) : Len(cobjs[clauses[k]]) # 1
         IN clauses[i]
    ELSE 0

\* Lines 79-96 of Cnf.unit_propagate: the first clause of the scan that is
\* empty or unit (0 if the scan finds none).
FirstShort(cobjs, clauses) ==
    IF \E i \in 1..Len(clauses) : Len(cobjs[clauses[i]]) <= 1
    THEN LET i == CHOOSE j \in 1..Len(clauses) :
                    /\ Len(cobjs[clauses[j]]) <= 1
                    /\ \A k \in 1..(j - 1) : Len(cobjs[clauses[k]]) > 1
         IN clauses[i]
    ELSE 0

----------------------------------------------------------------------------
\* The state machine

NoProp == [self |-> 0, var_queue |-> <<>>, assumptions |-> EmptyMap, site |-> "none",
           raised |-> "none"]

\* A call self.propagate(queue) on Cnf object f from the given call site.
CallPropagate(f, queue, site) ==
    [self |-> f, var_queue |-> queue, assumptions |-> EmptyMap, site |-> site,
     raised |-> "none"]

\* The loop test "while var_queue" of line 105.
LoopTest(queue) == IF queue = <<>> THEN "propagate_return" ELSE "propagate"

\* A new activation of dpll(formula).
Frame(f) == [formula |-> f, variables |-> EmptyMap, var |-> None, assume |-> None,
             new |-> 0, propagated |-> EmptyMap, attempt |-> 0]

Top == stack[Len(stack)]

\* A variant of Sentinel: the except clause returns an empty map.
SentinelEmpty == EmptyMap

\* The returned map of the except clause of Solver.solve.
Sentinel == SentinelKey :> SentinelVal

\* A variant of SolveMerge: the two maps are merged the other way round.
SolveMergeSwapped(dpll_result, variables) == Merge(variables, dpll_result)

\* Line 250 of Solver.solve: {**self.dpll(formula), **variables}, with
\* variables the assumptions of the pure-literal propagation.
SolveMerge(dpll_result, variables) == Merge(dpll_result, variables)

Init ==
    /\ input \in Inputs
    /\ clauseObj = [i \in 1..Len(input) |-> ClauseFromList(input[i])]
    /\ cnfObj = << CnfFromList([i \in 1..Len(input) |-> ClauseFromList(input[i])], NVars) >>
    /\ stack = <<>>
    /\ prop = NoProp
    /\ solveVars = EmptyMap
    /\ ret = EmptyMap
    /\ pc = "solve"
    /\ result = EmptyMap
    /\ steps = 0

\* Every step is counted, and no step is taken after MaxSteps steps.
Tick == steps < MaxSteps /\ steps' = steps + 1

\* Solver.solve, lines 239-247: collect the pure variables and call propagate.
SolvePure ==
    /\ pc = "solve"
    /\ Tick
    /\ LET q == PureVariables(cnfObj[1].variables, 1)
       IN /\ prop' = CallPropagate(1, q, "solve")
          /\ pc' = LoopTest(q)
    /\ UNCHANGED <<input, clauseObj, cnfObj, stack, solveVars, ret, result>>

\* Cnf.propagate: one dequeued assignment.
PropagateIter ==
    /\ pc = "propagate"
    /\ Tick
    /\ LET r == PropagatePass(clauseObj, cnfObj, prop.self, prop.var_queue, prop.assumptions)
       IN /\ clauseObj' = r.clauseObj
          /\ cnfObj' = r.cnfObj
          /\ prop' = [prop EXCEPT !.var_queue = r.var_queue, !.assumptions = r.assumptions,
                                   !.raised = r.raised]
          /\ pc' = CASE r.end = "loop" -> LoopTest(r.var_queue)
                     [] r.end = "return" -> "propagate_return"
                     [] r.end = "Unsatisfied" -> "propagate_raise"
                     [] OTHER -> "crashed"
    /\ UNCHANGED <<input, stack, solveVars, ret, result>>

\* Cnf.propagate returns its assumptions to the call site.
PropagateReturn ==
    /\ pc = "propagate_return"
    /\ Tick
    /\ prop' = NoProp
    /\ CASE prop.site = "solve" ->
            \* line 247, then the call of dpll(formula) in line 250
            /\ solveVars' = prop.assumptions
            /\ stack' = <<Frame(1)>>
            /\ pc' = "unit_propagate"
            /\ UNCHANGED ret
         [] prop.site = "unit" ->
            \* lines 90-94: assigned = {**assigned, **prop}; back to "while True"
            /\ stack' = [stack EXCEPT ![Len(stack)].variables = Merge(@, prop.assumptions)]
            /\ pc' = "unit_propagate"
            /\ UNCHANGED <<solveVars, ret>>
         [] OTHER ->
            \* lines 269-277 and 286-294
            IF cnfObj[Top.new].clauses = <<>>
            THEN /\ ret' = Merge(prop.assumptions, Top.variables)
                 /\ stack' = [stack EXCEPT ![Len(stack)].propagated = prop.assumptions]
                 /\ pc' = "return"
                 /\ UNCHANGED solveVars
            ELSE /\ stack' = Append([stack EXCEPT ![Len(stack)].propagated = prop.assumptions],
                                    Frame(Top.new))
                 /\ pc' = "unit_propagate"
                 /\ UNCHANGED <<solveVars, ret>>
    /\ UNCHANGED <<input, clauseObj, cnfObj, result>>

\* Cnf.propagate raises UnsatisfiedException to the call site.
PropagateRaise ==
    /\ pc = "propagate_raise"
    /\ Tick
    /\ prop' = NoProp
    /\ CASE prop.site = "solve" -> /\ result' = Sentinel
                                   /\ pc' = "done"
         [] prop.site = "first" -> /\ pc' = "second"
                                   /\ UNCHANGED result
         [] OTHER -> /\ pc' = "raise"
                     /\ UNCHANGED result
    /\ UNCHANGED <<input, clauseObj, cnfObj, stack, solveVars, ret>>

\* Cnf.unit_propagate, one pass of "while True" (lines 78-97) for the dpll
\* call on top of the stack (line 259).
UnitPropagateScan ==
    /\ pc = "unit_propagate"
    /\ Tick
    /\ LET self == cnfObj[Top.formula]
           c == FirstShort(clauseObj, self.clauses)
       IN IF self.clauses = <<>> \/ c = 0
          THEN /\ pc' = "branch"
               /\ UNCHANGED prop
          ELSE IF Len(clauseObj[c]) = 0
          THEN /\ pc' = "raise"
               /\ UNCHANGED prop
          ELSE /\ prop' = CallPropagate(Top.formula, <<clauseObj[c][1]>>, "unit")
               /\ pc' = "propagate"
    /\ UNCHANGED <<input, clauseObj, cnfObj, stack, solveVars, ret, result>>

\* Solver.dpll, lines 262-269: choose the split variable, copy the formula
\* and propagate the guess on the copy.
DpllBranch ==
    /\ pc = "branch"
    /\ Tick
    /\ LET choice == DynamicLargest(cnfObj[Top.formula].variables)
           heaps == CnfCopy(clauseObj, cnfObj, Top.formula)
           new == Len(heaps.cnfObj)
       IN /\ clauseObj' = heaps.clauseObj
          /\ cnfObj' = heaps.cnfObj
          /\ stack' = [stack EXCEPT ![Len(stack)].var = choice[1],
                                    ![Len(stack)].assume = choice[2],
                                    ![Len(stack)].new = new,
                                    ![Len(stack)].attempt = 1]
          /\ prop' = CallPropagate(new, << <<choice[1], choice[2]>> >>, "first")
          /\ pc' = "propagate"
    /\ UNCHANGED <<input, solveVars, ret, result>>

\* Solver.dpll, lines 280-286: the first attempt raised; copy the formula
\* again and propagate the opposite value.
DpllSecond ==
    /\ pc = "second"
    /\ Tick
    /\ LET heaps == CnfCopy(clauseObj, cnfObj, Top.formula)
           new == Len(heaps.cnfObj)
       IN /\ clauseObj' = heaps.clauseObj
          /\ cnfObj' = heaps.cnfObj
          /\ stack' = [stack EXCEPT ![Len(stack)].new = new,
                                    ![Len(stack)].attempt = 2]
          /\ prop' = CallPropagate(new, << <<Top.var, Not(Top.assume)>> >>, "second")
          /\ pc' = "propagate"
    /\ UNCHANGED <<input, solveVars, ret, result>>

\* The dpll call on top of the stack returns ret to its caller: another dpll
\* call (lines 277-278 and 294-295), which returns in turn, or Solver.solve
\* (lines 250-251).
DpllReturn ==
    /\ pc = "return"
    /\ Tick
    /\ stack' = SubSeq(stack, 1, Len(stack) - 1)
    /\ IF Len(stack) = 1
       THEN /\ result' = SolveMerge(ret, solveVars)
            /\ pc' = "done"
            /\ UNCHANGED ret
       ELSE LET caller == stack[Len(stack) - 1]
                new_vars == Merge(ret, caller.propagated)
            IN /\ ret' = Merge(caller.variables, new_vars)
               /\ pc' = "return"
               /\ UNCHANGED result
    /\ UNCHANGED <<input, clauseObj, cnfObj, prop, solveVars>>

\* The dpll call on top of the stack raises UnsatisfiedException to its
\* caller: a dpll call in its first attempt catches it (line 280), one in its
\* second attempt lets it pass, and Solver.solve turns it into the sentinel
\* (lines 252-253).
DpllRaise ==
    /\ pc = "raise"
    /\ Tick
    /\ stack' = SubSeq(stack, 1, Len(stack) - 1)
    /\ IF Len(stack) = 1
       THEN /\ result' = Sentinel
            /\ pc' = "done"
       ELSE /\ pc' = IF stack[Len(stack) - 1].attempt = 1 THEN "second" ELSE "raise"
            /\ UNCHANGED result
    /\ UNCHANGED <<input, clauseObj, cnfObj, prop, solveVars, ret>>

Next ==
    \/ SolvePure
    \/ PropagateIter
    \/ PropagateReturn
    \/ PropagateRaise
    \/ UnitPropagateScan
    \/ DpllBranch
    \/ DpllSecond
    \/ DpllReturn
    \/ DpllRaise

Spec == Init /\ [][Next]_vars

\* The merge of line 250 on its own: the outermost dpll call is about to
\* return an arbitrary map (ret) to Solver.solve, whose pure-literal pass gave
\* an arbitrary map (solveVars).
PartialMaps(keys) == UNION {[D -> {0, 1}] : D \in SUBSET keys}

MergeInit ==
    /\ input = <<>>
    /\ clauseObj = <<>>
    /\ cnfObj = << CnfFromList(<<>>, NVars) >>
    /\ stack = <<Frame(1)>>
    /\ prop = NoProp
    /\ solveVars \in PartialMaps(1..NVars)
    /\ ret \in PartialMaps(1..NVars) \cup {Merge(m, None :> None) : m \in PartialMaps(1..NVars)}
    /\ pc = "return"
    /\ result = EmptyMap
    /\ steps = 0

MergeSpec == MergeInit /\ [][DpllReturn]_vars

\* The scheduling of a sequential program: a step that can be taken is taken.
FairSpec == Spec /\ WF_vars(Next)

----------------------------------------------------------------------------
\* Vocabulary of the properties

\* The original clauses, as Clause.from_list built them.
Original == [i \in 1..Len(input) |-> ClauseFromList(input[i])]

\* The assignment a (a map) makes the clause (an ordered dict) true: some
\* literal's variable is assigned the literal's polarity.
Satisfies(a, clause) ==
    \E i \in 1..Len(clause) : clause[i][1] \in DOMAIN a /\ a[clause[i][1]] = clause[i][2]

\* Some assignment of the variables 1..NVars makes every original clause true.
Satisfiable ==
    \E a \in [1..NVars -> {0, 1}] : \A i \in 1..Len(Original) : Satisfies(a, Original[i])

\* The map r is the UNSAT result: the single entry 0 with a truthy value.
IsUnsat(r) == DOMAIN r = {0} /\ r[0] # 0 /\ r[0] # None

\* Solver.solve has returned.
Returned == pc = "done"

\* The variables that occur in the original clauses.
Occurring ==
    {v \in 1..NVars : \E i \in 1..Len(input) : \E j \in 1..Len(input[i]) :
                        Abs(input[i][j]) = v}

----------------------------------------------------------------------------
\* C1 (soundness): whenever Solver.solve returns a result other than the UNSAT
\* sentinel, the returned assignment makes every original clause true.
C1_Soundness ==
    (Returned /\ ~IsUnsat(result)) => \A i \in 1..Len(Original) : Satisfies(result, Original[i])

\* A satisfying assignment returned after the search made at least two copies
\* of a formula of at least three clauses.
C1_Witness ==
    /\ Returned
    /\ ~IsUnsat(result)
    /\ Len(input) >= 3
    /\ Len(cnfObj) >= 3
    /\ \A i \in 1..Len(Original) : Satisfies(result, Original[i])

\* C2 (completeness): Solver.solve returns, never fails with another error,
\* and its result is the UNSAT sentinel exactly when the formula is
\* unsatisfiable (so a satisfiable formula gets an assignment and an
\* unsatisfiable one never gets a partial or incorrect assignment).
C2_Completeness ==
    /\ pc # "crashed"
    /\ Returned => (IsUnsat(result) <=> ~Satisfiable)

\* An unsatisfiable formula without an empty clause, refuted only after both
\* polarities of a split variable were tried.
C2_Witness ==
    /\ Returned
    /\ IsUnsat(result)
    /\ ~Satisfiable
    /\ Len(cnfObj) >= 3
    /\ \A i \in 1..Len(Original) : Len(Original[i]) >= 2

\* C3: an UnsatisfiedException never escapes Solver.solve.  A step in which
\* the exception reaches solve (raised by the pure-literal propagation, or by
\* the outermost dpll call) ends the call with exactly the single-entry map
\* {0: truthy}; a step in which the outermost dpll call returns ends it with a
\* map that has no entry 0.
ReachesSolve ==
    \/ pc = "propagate_raise" /\ prop.site = "solve"
    \/ pc = "raise" /\ Len(stack) = 1

C3_ContradictionCaught ==
    [][/\ ReachesSolve => (pc' = "done" /\ IsUnsat(result'))
       /\ (pc = "return" /\ Len(stack) = 1) => (pc' = "done" /\ 0 \notin DOMAIN result')
       /\ pc' # "crashed"]_vars

\* The outermost dpll call raises after its second attempt failed.
C3_Witness == pc = "raise" /\ Len(stack) = 1 /\ Top.attempt = 2

\* C4 (termination): Solver.solve terminates, so every loop of propagate and
\* unit_propagate and the recursion of dpll end, and the number of dpll calls
\* nested inside the outermost one never exceeds the number of distinct
\* variables of the formula (nor does the number of all active dpll calls,
\* as soon as the formula has a variable).  Termination is stated on finite
\* runs: as long as solve has not returned, the run has not been cut off and
\* the control is at a step that can be taken (CanStep is the disjunction of
\* the guards of the actions of Next), so every run returns within MaxSteps
\* steps.
DpllDepth == IF stack = <<>> THEN 0 ELSE Len(stack) - 1

CanStep ==
    /\ steps < MaxSteps
    /\ \/ pc = "solve"
       \/ pc = "propagate" /\ prop.var_queue # <<>>
       \/ pc \in {"propagate_return", "propagate_raise"} /\ prop.site # "none"
       \/ pc \in {"unit_propagate", "branch", "second", "return", "raise"} /\ stack # <<>>

C4_Termination ==
    /\ ~Returned => CanStep
    /\ DpllDepth <= Cardinality(Occurring)
    /\ Occurring # {} => Len(stack) <= Cardinality(Occurring)

\* A dpll call nested in the outermost one is running, and the run ends.
C4_Witness == Len(stack) = 2 /\ pc = "unit_propagate" /\ Cardinality(Occurring) = 3

\* C5 as stated: a result other than the sentinel holds a boolean for every
\* variable 1..N, also for those that occur in no clause.
C5_Original ==
    (Returned /\ ~IsUnsat(result)) =>
        \A v \in 1..NVars : v \in DOMAIN result /\ result[v] \in {0, 1}

\* C5 as amended: a result other than the sentinel holds a boolean for every
\* variable that occurs in at least one clause of the formula (also for those
\* that stopped constraining anything during propagation); a variable of 1..N
\* that occurs in no clause has no entry.
C5_Amended ==
    (Returned /\ ~IsUnsat(result)) =>
        /\ \A v \in Occurring : v \in DOMAIN result /\ result[v] \in {0, 1}
        /\ \A v \in (1..NVars) \ Occurring : v \notin DOMAIN result

\* A result for a formula in which two of the three variables occur.
C5_Witness ==
    /\ Returned
    /\ ~IsUnsat(result)
    /\ Cardinality(Occurring) = 2
    /\ Len(input) >= 2
    /\ \A v \in Occurring : v \in DOMAIN result

\* C6 as stated: a result other than the sentinel maps variable identifiers of
\* 1..N to booleans and has no other entry; the clause {1, 2} alone yields
\* exactly {1: true, 2: true}.
C6_Original ==
    (Returned /\ ~IsUnsat(result)) =>
        /\ \A k \in DOMAIN result : k \in 1..NVars /\ result[k] \in {0, 1}
        /\ input = << <<1, 2>> >> => result = (1 :> 1 @@ 2 :> 1)

\* C6 as amended: every entry of a result other than the sentinel maps a
\* variable identifier of 1..N to a boolean, except for the entry None: None
\* that dpll adds when it splits on an empty index; the clause {1, 2} alone
\* yields {None: None, 1: true, 2: true}.
C6_Amended ==
    (Returned /\ ~IsUnsat(result)) =>
        /\ \A k \in DOMAIN result : \/ k \in 1..NVars /\ result[k] \in {0, 1}
                                    \/ k = None /\ result[k] = None
        /\ input = << <<1, 2>> >> => result = (None :> None @@ 1 :> 1 @@ 2 :> 1)

\* The clause {1, 2} alone has been solved.
C6_Witness ==
    /\ Returned
    /\ input = << <<1, 2>> >>
    /\ result = (None :> None @@ 1 :> 1 @@ 2 :> 1)

\* The occurrence index of Cnf object f is exact: every stored pair is the
\* number of live clauses holding the variable with each polarity.
IndexExact(f) ==
    \A v \in DOMAIN cnfObj[f].variables :
        cnfObj[f].variables[v] = Count(clauseObj, cnfObj[f].clauses, v)

\* C7 as stated: after construction and after every dequeued assignment
\* processed inside propagate, the index of the formula is exact.
C7_Original ==
    /\ pc = "solve" => IndexExact(1)
    /\ pc \in {"propagate", "propagate_return"} => IndexExact(prop.self)

\* The clause dicts and the index of Cnf object f in the heaps cobjs, fobjs.
FormulaStateIn(cobjs, fobjs, f) ==
    [variables |-> fobjs[f].variables,
     clauses |-> [i \in 1..Len(fobjs[f].clauses) |-> cobjs[fobjs[f].clauses[i]]]]

FormulaState(f) == FormulaStateIn(clauseObj, cnfObj, f)

\* C8 (clone isolation): while a dpll call is in one of its two attempts, no
\* step changes the formula it was called on (its live clauses, their literals
\* and its index), whatever happens to the copy; and the copy made for the
\* second attempt is equal to that formula.
C8_CloneIsolation ==
    [][/\ \A i \in 1..Len(stack) :
            stack[i].attempt \in {1, 2} =>
                FormulaStateIn(clauseObj', cnfObj', stack[i].formula)
                    = FormulaState(stack[i].formula)
       /\ pc = "second" =>
            FormulaStateIn(clauseObj', cnfObj', Top'.new) = FormulaState(Top.formula)]_vars

\* The first attempt was aborted by a contradiction after a clause of the copy
\* had lost a literal.
C8_Witness ==
    /\ pc = "second"
    /\ FormulaState(Top.new) # FormulaState(Top.formula)
    /\ \E i \in 1..Len(cnfObj[Top.formula].clauses) :
          Len(clauseObj[Len(clauseObj) - Len(cnfObj[Top.formula].clauses) + i])
              < Len(clauseObj[cnfObj[Top.formula].clauses[i]])

\* C9 (monotonic shrinkage): a pass of propagate adds no live clause and no
\* index entry, so neither number grows.
Range(q) == {q[i] : i \in 1..Len(q)}

C9_Shrinkage ==
    [][pc = "propagate" =>
         LET f == prop.self
         IN /\ Len(cnfObj'[f].clauses) <= Len(cnfObj[f].clauses)
            /\ Range(cnfObj'[f].clauses) \subseteq Range(cnfObj[f].clauses)
            /\ DOMAIN cnfObj'[f].variables \subseteq DOMAIN cnfObj[f].variables]_vars

\* In the middle of the propagate call of a first attempt, the copy has lost
\* clauses and index entries.
C9_Witness ==
    /\ pc = "propagate"
    /\ prop.site = "first"
    /\ cnfObj[prop.self].clauses # <<>>
    /\ Len(cnfObj[prop.self].clauses) < Len(cnfObj[Top.formula].clauses)
    /\ Cardinality(DOMAIN cnfObj[prop.self].variables)
          < Cardinality(DOMAIN cnfObj[Top.formula].variables)

\* The keys the two maps merged by Solver.solve share.
Overlap == (DOMAIN ret) \cap (DOMAIN solveVars)

NoOverlapInSolve == (pc = "return" /\ Len(stack) = 1) => Overlap = {}

\* The sum of the two occurrence counts of variable v in the index.
Occurrences(variables, v) == variables[v][1] + variables[v][2]

\* C11 as stated: the variable dynamic_largest returned for a non-empty index
\* (the split variable of a dpll call, chosen from the index of the formula
\* the call was made on) has the largest sum of negative and positive counts
\* among the variables of that index.
C11_Original ==
    \A i \in 1..Len(stack) :
        LET variables == cnfObj[stack[i].formula].variables
        IN (stack[i].attempt \in {1, 2} /\ DOMAIN variables # {}) =>
              /\ stack[i].var \in DOMAIN variables
              /\ \A w \in DOMAIN variables :
                    Occurrences(variables, w) <= Occurrences(variables, stack[i].var)

\* The dpll call on top of the stack is returning straight from its first
\* attempt, and the formula it was called on had no live clause left after
\* unit_propagate.  (A call that recursed has a formula with live clauses.)
ReturnsWithoutClauses ==
    /\ pc = "return"
    /\ stack # <<>>
    /\ cnfObj[Top.formula].clauses = <<>>

\* C12 as stated: a dpll call whose formula has no live clause after
\* unit_propagate returns exactly the assignment unit_propagate accumulated and
\* chooses no split variable; the empty clause list yields the empty map.
C12_Original ==
    /\ ReturnsWithoutClauses => (ret = Top.variables /\ Top.attempt = 0)
    /\ (Returned /\ input = <<>>) => result = EmptyMap

\* C12 as amended: such a call still asks dynamic_largest for a split (a
\* variable left in the index with a boolean guess, or None with the guess
\* None when the index is empty), propagates it on a copy and returns the
\* split's entry merged with the assignment of unit_propagate, whose values win;
\* the empty clause list yields {None: None}.
C12_Amended ==
    /\ ReturnsWithoutClauses =>
          LET variables == cnfObj[Top.formula].variables
          IN /\ Top.attempt = 1
             /\ IF DOMAIN variables = {}
                THEN Top.var = None /\ Top.assume = None
                ELSE Top.var \in DOMAIN variables /\ Top.assume \in {0, 1}
             /\ Top.propagated = (Top.var :> Top.assume)
             /\ ret = Merge(Top.var :> Top.assume, Top.variables)
    /\ (Returned /\ input = <<>>) => result = (None :> None)

\* A dpll call returns without live clauses after its unit_propagate assigned
\* at least two variables.
C12_Witness ==
    /\ ReturnsWithoutClauses
    /\ Cardinality(DOMAIN Top.variables) >= 2
    /\ Top.attempt = 1
    /\ ret = Merge(Top.var :> Top.assume, Top.variables)

\* A dpll call splits on a variable left in the index of a formula without
\* live clauses.
StaleSplit == ReturnsWithoutClauses /\ Top.var # None

\* The attempt of the dpll call on top of the stack ends in a contradiction:
\* the propagate call of the attempt raises, or the dpll call made beneath it
\* does.
AttemptFails(n) ==
    \/ pc = "propagate_raise" /\ prop.site = (IF n = 1 THEN "first" ELSE "second")
                              /\ Top.attempt = n
    \/ pc = "raise" /\ Len(stack) >= 2 /\ stack[Len(stack) - 1].attempt = n

\* The unit_propagate of the dpll call on top of the stack raises: its scan
\* finds an empty clause, or the propagate call it made raises.
UnitPropagateRaises ==
    \/ pc = "unit_propagate"
    \/ pc = "propagate_raise" /\ prop.site = "unit"

\* After the step, a propagate call of the given site starts on a new copy of
\* the formula of the dpll call on top of the stack, with the one assignment
\* var: val in its queue: the copy is a new Cnf object made of new Clause
\* objects, and it is equal to the formula as it is before the step.
TriesOnFreshClone(var, val, site) ==
    /\ Top'.new > Len(cnfObj)
    /\ \A c \in Range(cnfObj'[Top'.new].clauses) : c > Len(clauseObj)
    /\ FormulaStateIn(clauseObj', cnfObj', Top'.new) = FormulaState(Top.formula)
    /\ prop' = CallPropagate(Top'.new, << <<var, val>> >>, site)
    /\ pc' = "propagate"

LiveOfLength(f, n) == {c \in Range(cnfObj[f].clauses) : Len(clauseObj[c]) = n}

\* The unit_propagate call of the dpll call on top of the stack is running: in
\* its scan, or in the propagate call it made for a unit clause.
InUnitPropagate ==
    \/ pc = "unit_propagate"
    \/ pc \in {"propagate", "propagate_return"} /\ prop.site = "unit"

\* C14 (postcondition of unit_propagate): when unit_propagate returns normally
\* (the dpll call goes on to choose its split), its formula has no live clause
\* at all, or no live clause of one literal and none of zero literals; and a
\* formula with a zero-length live clause keeps it during unit_propagate, which
\* goes on or raises but does not return.
C14_UnitPropagatePost ==
    [][/\ pc' = "branch" =>
            /\ pc = "unit_propagate"
            /\ \/ cnfObj'[Top'.formula].clauses = <<>>
               \/ \A c \in Range(cnfObj'[Top'.formula].clauses) : Len(clauseObj'[c]) >= 2
       /\ (InUnitPropagate /\ LiveOfLength(Top.formula, 0) # {}) =>
            /\ pc' \in {"unit_propagate", "propagate", "propagate_return",
                        "propagate_raise", "raise"}
            /\ pc' \in {"unit_propagate", "propagate", "propagate_return"} =>
                  \E c \in Range(cnfObj'[Top'.formula].clauses) : Len(clauseObj'[c]) = 0]_vars

\* unit_propagate is called on a formula that holds an empty clause after a
\* unit clause and a longer one.
EmptyClauseAtCall ==
    /\ pc = "unit_propagate"
    /\ Top.variables = EmptyMap
    /\ LiveOfLength(Top.formula, 0) # {}
    /\ LiveOfLength(Top.formula, 1) # {}
    /\ Len(cnfObj[Top.formula].clauses) >= 3
    /\ FirstShort(clauseObj, cnfObj[Top.formula].clauses) \in LiveOfLength(Top.formula, 1)

\* unit_propagate returns with live clauses after it propagated a unit clause.
C14_Witness ==
    /\ pc = "branch"
    /\ Top.variables # EmptyMap
    /\ cnfObj[Top.formula].clauses # <<>>

\* Every variable of every live clause of Cnf object f has an entry in the
\* occurrence index of f.
Covered(f) ==
    \A c \in Range(cnfObj[f].clauses) :
        \A i \in 1..Len(clauseObj[c]) : clauseObj[c][i][1] \in DOMAIN cnfObj[f].variables

\* C15: after construction, and after every dequeued assignment a propagate
\* call has processed without raising, a variable that is not in the
\* occurrence index is in no live clause of the formula; so the counter lookup
\* for the variables of a dropped clause never fails, and the variable of a
\* unit clause is in the index when unit_propagate hands it to propagate.
C15_AbsentNotLive ==
    /\ pc = "solve" => Covered(1)
    /\ pc \in {"propagate", "propagate_return"} => Covered(prop.self)
    /\ pc # "crashed"
    /\ (pc = "propagate" /\ prop.site = "unit" /\ prop.assumptions = EmptyMap) =>
          prop.var_queue[1][1] \in DOMAIN cnfObj[prop.self].variables

\* In the middle of a propagate call, the index has lost at least two
\* variables that the original formula had, and live clauses remain.
C15_Witness ==
    /\ pc = "propagate"
    /\ prop.assumptions # EmptyMap
    /\ cnfObj[prop.self].clauses # <<>>
    /\ Cardinality(DOMAIN cnfObj[prop.self].variables) + 2 <= Cardinality(Occurring)

\* The literals of a clause dict, as a set.
LiteralSet(clause) == {clause[i] : i \in 1..Len(clause)}

\* C16 as stated: in the formula Cnf.from_list built, two input clauses with
\* the same literal set are one live clause: the live clauses have pairwise
\* different literal sets, and each index entry counts the different literal
\* sets that hold the variable with each polarity.
C16_Original ==
    pc = "solve" =>
        LET clauses == cnfObj[1].clauses
            sets == {LiteralSet(Original[i]) : i \in 1..Len(Original)}
        IN /\ \A i, j \in 1..Len(clauses) :
                  i # j => LiteralSet(clauseObj[clauses[i]]) # LiteralSet(clauseObj[clauses[j]])
           /\ \A v \in DOMAIN cnfObj[1].variables :
                  cnfObj[1].variables[v] = << Cardinality({l \in sets : <<v, 0>> \in l}),
                                               Cardinality({l \in sets : <<v, 1>> \in l}) >>

\* The variables that occur in the live clauses of Cnf object f.
LiveVariables(f) ==
    {clauseObj[c][i][1] : <<c, i>> \in {p \in Range(cnfObj[f].clauses) \X (1..NVars) :
                                            p[2] <= Len(clauseObj[p[1]])}}

\* C17: a propagate call that returns normally with a live clause left has an
\* empty queue and leaves an exact index: its keys are the variables of the
\* live clauses and every stored pair is the true count of each polarity.
\* (Stale entries and over-counts are left behind only by the early exit.)
C17_ExactAtReturn ==
    (pc = "propagate_return" /\ cnfObj[prop.self].clauses # <<>>) =>
        /\ prop.var_queue = <<>>
        /\ DOMAIN cnfObj[prop.self].variables = LiveVariables(prop.self)
        /\ IndexExact(prop.self)

\* A propagate call returns with live clauses after at least two dequeued
\* assignments, one of which came from a clause that became unit or from a
\* variable that became pure.
C17_Witness ==
    /\ pc = "propagate_return"
    /\ cnfObj[prop.self].clauses # <<>>
    /\ prop.site \in {"unit", "first", "second"}
    /\ Cardinality(DOMAIN prop.assumptions) >= 2

\* The early exit leaves an index entry behind: a propagate call returns
\* without live clauses and with a variable still indexed.
StaleAtEarlyExit ==
    /\ pc = "propagate_return"
    /\ cnfObj[prop.self].clauses = <<>>
    /\ DOMAIN cnfObj[prop.self].variables # {}

\* The variables of the index that are pure: one of the two counts is zero.
PureInIndex(variables) ==
    {v \in DOMAIN variables : variables[v][1] = 0 \/ variables[v][2] = 0}

\* C18: when a dpll call chooses its split variable while its formula has
\* live clauses, no variable of the index is pure: every indexed variable has a
\* negative and a positive count of at least 1.
C18_NoPureAtBranch ==
    (pc = "branch" /\ cnfObj[Top.formula].clauses # <<>>) =>
        /\ PureInIndex(cnfObj[Top.formula].variables) = {}
        /\ \A v \in DOMAIN cnfObj[Top.formula].variables :
              cnfObj[Top.formula].variables[v][1] >= 1 /\ cnfObj[Top.formula].variables[v][2] >= 1

\* A dpll call is at its split with live clauses, for a formula that had a
\* pure variable when it was built.
C18_Witness ==
    /\ pc = "branch"
    /\ cnfObj[Top.formula].clauses # <<>>
    /\ \E v \in Occurring :
          \/ \A i \in 1..Len(Original) : Get(Original[i], v) # 0
          \/ \A i \in 1..Len(Original) : Get(Original[i], v) # 1

\* C19: in a run of Solver.solve, a propagate call never raises from the
\* pure-literal forcing path (lines 162 and 179: a count reached zero for a
\* variable that is queued with the value of that polarity); a propagate call
\* raises because a clause became empty or because a clause that became unit
\* disagrees with the queue, and every other contradiction is an empty clause
\* found by the scan of unit_propagate or one passed on by a dpll call.
C19_NoForcingConflict ==
    [][/\ pc = "propagate_raise" =>
            /\ prop.raised \in {"empty_clause", "unit_conflict"}
            /\ prop.raised # "forcing"
       /\ pc' = "propagate_raise" => (pc = "propagate" /\ prop'.raised # "forcing")
       /\ pc' = "raise" =>
            \/ pc = "propagate_raise"
            \/ pc = "raise"
            \/ pc = "unit_propagate" /\ LiveOfLength(Top.formula, 0) # {}]_vars

\* The queue of the running propagate call holds a variable that the forcing
\* path put there or found there: it is queued with a value whose opposite
\* polarity has no occurrence left in the index, while the other polarity has.
ForcedInQueue ==
    \E i \in 1..Len(prop.var_queue) :
        LET var == prop.var_queue[i][1]
            val == prop.var_queue[i][2]
            variables == cnfObj[prop.self].variables
        IN /\ var \in DOMAIN variables
           /\ variables[var][(1 - val) + 1] = 0
           /\ variables[var][val + 1] > 0

\* A propagate call made by dpll raises for a clause that became empty or a
\* unit clause that disagrees with the queue, in a pass after which the queue
\* holds a variable forced by the forcing path.
C19_Witness ==
    /\ pc = "propagate_raise"
    /\ prop.site \in {"first", "second", "unit"}
    /\ prop.raised \in {"empty_clause", "unit_conflict"}
    /\ ForcedInQueue

====
